---- MODULE Spec2Model ----
(***************************************************************************)
(* Model of gui_lib::BasicCanvas (src/src/lib.rs): an ordered list of      *)
(* shape handles compared by pointer identity, an ordered list of widgets, *)
(* the reorder / remove operations and the render pass of each layout.     *)
(* Sequences are 1-based here; index k of the model is index k-1 of the    *)
(* Rust Vec.  Option::None of an index is modelled by 0.                   *)
(***************************************************************************)
EXTENDS Integers, Sequences, FiniteSets, TLC

VARIABLES layout, shapes, widgets, last, hist
\* bases: the ShapeBase of every shape constructed so far, by identity.
VARIABLES bases
\* TheApp: its world, message buffer and time gate; now is the clock of the
\* host, pc the position inside TheApp::update, local the buffer taken out
\* of self.msgs while it is drained, flog the steps of the current frame,
\* updated whether TheCanvas::update has run yet.
VARIABLES world, msgs, last_toggle, now, pc, local, flog, updated

canvasVars == <<layout, shapes, widgets, last, hist>>
appVars == <<world, msgs, last_toggle, now, pc, local, flog, updated>>
vars == <<layout, shapes, widgets, last, hist, bases,
          world, msgs, last_toggle, now, pc, local, flog, updated>>

(* ------------------------------ bounds --------------------------------- *)
NumHandles == 3
MaxShapes == 3
MaxWidgets == 1

(* ------------------------- program constants --------------------------- *)
SLIDER_GAUGE == 1
SLIDER_ANOTHER == 2
DRAGFLOAT_GAUGE == 1
BTN_STATE_A == 1
BTN_STATE_B == 2

(* ------------------------------ domains -------------------------------- *)
\* Shape identities (Rc pointers); two handles are the same shape exactly
\* when they are the same number.
Handles == 1..NumHandles
\* Positions a Slider / DragFloat can be dragged to.
Values == {0, 1}
None == 0
NoInput == -1

LayoutStyle == {"TopPanel", "SidePanel", "NoPanel"}

Space(size) == [kind |-> "Space", id |-> None, value |-> None]
Button(id) == [kind |-> "Button", id |-> id, value |-> None]
Slider(id, value) == [kind |-> "Slider", id |-> id, value |-> value]
DragFloat(id, value) == [kind |-> "DragFloat", id |-> id, value |-> value]

ButtonClicked(id) == [tag |-> "ButtonClicked", id |-> id, value |-> None]
SliderChanged(id, value) == [tag |-> "SliderChanged", id |-> id, value |-> value]
DragFloatChanged(id, value) == [tag |-> "DragFloatChanged", id |-> id, value |-> value]

\* Widgets handed to add_widget, what the toolkit reports for a widget in a
\* frame, and the buffers handed to render (empty, or with a stale message).
WidgetSet == {Space(None), Button(BTN_STATE_A)}
Inputs == {NoInput, 1}
Buffers == {<<>>, <<ButtonClicked(BTN_STATE_B)>>}

(* --------------------------- Vec primitives ---------------------------- *)
\* Vec::remove(i): drops the element at position i, shifting the rest left.
VecRemove(s, i) == SubSeq(s, 1, i - 1) \o SubSeq(s, i + 1, Len(s))

\* Vec::insert(i, e) of the 0-based Vec: e ends up right after the element
\* at 1-based position p, i.e. at 1-based position p + 1.
VecInsertAfter(s, p, e) == SubSeq(s, 1, p) \o <<e>> \o SubSeq(s, p + 1, Len(s))

\* iter().position(|h| Rc::ptr_eq(h, target)): first matching position.
index_of_handle(s, target) ==
  IF \E i \in 1..Len(s) : s[i] = target
  THEN CHOOSE i \in 1..Len(s) :
         /\ s[i] = target
         /\ \A j \in 1..(i - 1) : s[j] # target
  ELSE None

(* --------------------------- shape operations -------------------------- *)
\* variant: inserts at the bottom of the list
add_shape_front(s, h) == <<h>> \o s

add_shape(s, h) == Append(s, h)

\* variant: moves the shape to the bottom of the list
put_on_top_handle_nopush(s, a) ==
  LET i == index_of_handle(s, a) IN
  IF i = None THEN [ret |-> FALSE, shapes |-> s]
  ELSE IF i = Len(s) THEN [ret |-> TRUE, shapes |-> s]
  ELSE [ret |-> TRUE, shapes |-> <<s[i]>> \o VecRemove(s, i)]

\* variant: exchanges the shape with the top entry
put_on_top_handle_swap(s, a) ==
  LET i == index_of_handle(s, a) IN
  IF i = None THEN [ret |-> FALSE, shapes |-> s]
  ELSE IF i = Len(s) THEN [ret |-> TRUE, shapes |-> s]
  ELSE [ret |-> TRUE, shapes |-> [s EXCEPT ![i] = s[Len(s)], ![Len(s)] = s[i]]]

put_on_top_handle(s, a) ==
  LET i == index_of_handle(s, a) IN
  IF i = None THEN [ret |-> FALSE, shapes |-> s]
  ELSE IF i = Len(s) THEN [ret |-> TRUE, shapes |-> s]
  ELSE [ret |-> TRUE, shapes |-> Append(VecRemove(s, i), s[i])]

\* variant: reinserts a in front of b instead of behind it
put_on_top_of_handle_before(s, a, b) ==
  LET ia == index_of_handle(s, a)
      ib == index_of_handle(s, b)
  IN
  IF ia = None \/ ib = None THEN [ret |-> FALSE, shapes |-> s]
  ELSE IF ia = ib THEN [ret |-> TRUE, shapes |-> s]
  ELSE LET ib2 == IF ia < ib THEN ib - 1 ELSE ib
       IN [ret |-> TRUE, shapes |-> VecInsertAfter(VecRemove(s, ia), ib2 - 1, s[ia])]

\* variant: pushes a to the end of the list, as put_on_top does
put_on_top_of_handle_toend(s, a, b) ==
  LET ia == index_of_handle(s, a)
      ib == index_of_handle(s, b)
  IN
  IF ia = None \/ ib = None THEN [ret |-> FALSE, shapes |-> s]
  ELSE IF ia = ib THEN [ret |-> TRUE, shapes |-> s]
  ELSE [ret |-> TRUE, shapes |-> Append(VecRemove(s, ia), s[ia])]

put_on_top_of_handle(s, a, b) ==
  LET ia == index_of_handle(s, a)
      ib == index_of_handle(s, b)
  IN
  IF ia = None \/ ib = None THEN [ret |-> FALSE, shapes |-> s]
  ELSE IF ia = ib THEN [ret |-> TRUE, shapes |-> s]
  ELSE LET entry == s[ia]
           removed == VecRemove(s, ia)
           ib2 == IF ia < ib THEN ib - 1 ELSE ib
       IN [ret |-> TRUE, shapes |-> VecInsertAfter(removed, ib2, entry)]

\* variant: a miss still drops the top entry
remove_shape_handle_last(s, h) ==
  IF index_of_handle(s, h) # None
  THEN [ret |-> TRUE, shapes |-> VecRemove(s, index_of_handle(s, h))]
  ELSE [ret |-> FALSE, shapes |-> SubSeq(s, 1, Len(s) - 1)]

\* variant: a hit drops the top entry instead of the entry found
remove_shape_handle_pop(s, h) ==
  IF index_of_handle(s, h) # None
  THEN [ret |-> TRUE, shapes |-> SubSeq(s, 1, Len(s) - 1)]
  ELSE [ret |-> FALSE, shapes |-> s]

remove_shape_handle(s, h) ==
  LET i == index_of_handle(s, h) IN
  IF i # None THEN [ret |-> TRUE, shapes |-> VecRemove(s, i)]
  ELSE [ret |-> FALSE, shapes |-> s]

(* ------------------------------- widgets ------------------------------- *)
\* Widget::invoke.  inp is what the host toolkit reports for this widget in
\* this frame: NoInput, or a value v (a click for a Button; the value the
\* user dragged a Slider / DragFloat to, which the toolkit writes into
\* self.value and reports as changed() exactly when it differs).
invoke_Space(w, out, inp) == [widget |-> w, out |-> out]

\* variant: every button reports the id of the first button
invoke_Button_fixed_id(w, out, inp) ==
  IF inp # NoInput
  THEN [widget |-> w, out |-> Append(out, ButtonClicked(BTN_STATE_A))]
  ELSE [widget |-> w, out |-> out]

invoke_Button(w, out, inp) ==
  IF inp # NoInput
  THEN [widget |-> w, out |-> Append(out, ButtonClicked(w.id))]
  ELSE [widget |-> w, out |-> out]

\* variant: the slider reports its value in every frame
invoke_Slider_always(w, out, inp) ==
  LET w2 == IF inp = NoInput THEN w ELSE [w EXCEPT !.value = inp] IN
  [widget |-> w2, out |-> Append(out, SliderChanged(w2.id, w2.value))]

invoke_Slider(w, out, inp) ==
  IF inp = NoInput THEN [widget |-> w, out |-> out]
  ELSE LET w2 == [w EXCEPT !.value = inp] IN
       IF inp # w.value
       THEN [widget |-> w2, out |-> Append(out, SliderChanged(w2.id, w2.value))]
       ELSE [widget |-> w2, out |-> out]

invoke_DragFloat(w, out, inp) ==
  IF inp = NoInput THEN [widget |-> w, out |-> out]
  ELSE LET w2 == [w EXCEPT !.value = inp] IN
       IF inp # w.value
       THEN [widget |-> w2, out |-> Append(out, DragFloatChanged(w2.id, w2.value))]
       ELSE [widget |-> w2, out |-> out]

invoke(w, out, inp) ==
  CASE w.kind = "Space" -> invoke_Space(w, out, inp)
    [] w.kind = "Button" -> invoke_Button(w, out, inp)
    [] w.kind = "Slider" -> invoke_Slider(w, out, inp)
    [] w.kind = "DragFloat" -> invoke_DragFloat(w, out, inp)

\* variant: the widgets are invoked from the last to the first
RECURSIVE InvokeWidgets_rev(_, _, _, _)
InvokeWidgets_rev(wid, out, ins, i) ==
  IF i > Len(wid) THEN [widgets |-> wid, out |-> out]
  ELSE LET k == Len(wid) + 1 - i
           r == invoke(wid[k], out, ins[k])
       IN InvokeWidgets_rev([wid EXCEPT ![k] = r.widget], r.out, ins, i + 1)

\* for widget in &mut self.widgets { widget.invoke(ui, out); }
RECURSIVE InvokeWidgets(_, _, _, _)
InvokeWidgets(wid, out, ins, i) ==
  IF i > Len(wid) THEN [widgets |-> wid, out |-> out]
  ELSE LET r == invoke(wid[i], out, ins[i]) IN
       InvokeWidgets([wid EXCEPT ![i] = r.widget], r.out, ins, i + 1)

(* ------------------------------- render -------------------------------- *)
\* The steps of a render pass, in the order the code performs them.
EvBackground == [ev |-> "background", arg |-> None]
EvShape(h) == [ev |-> "shape", arg |-> h]
EvWidget(i) == [ev |-> "widget", arg |-> i]

\* painter.rect_filled(..background_color); for shape in &self.shapes {draw}
PaintCentral(shp) == <<EvBackground>> \o [i \in 1..Len(shp) |-> EvShape(shp[i])]

WidgetEvents(wid) == [i \in 1..Len(wid) |-> EvWidget(i)]

\* variant: the central panel is painted before the toolbar widgets run
render_with_top_panel_shapes_first(shp, wid, out, ins) ==
  LET r == InvokeWidgets(wid, out, ins, 1) IN
  [events |-> PaintCentral(shp) \o WidgetEvents(wid),
   widgets |-> r.widgets, out |-> r.out]

render_with_top_panel(shp, wid, out, ins) ==
  LET r == InvokeWidgets(wid, out, ins, 1) IN
  [events |-> WidgetEvents(wid) \o PaintCentral(shp),
   widgets |-> r.widgets, out |-> r.out]

render_with_side_panel(shp, wid, out, ins) ==
  LET r == InvokeWidgets(wid, out, ins, 1) IN
  [events |-> WidgetEvents(wid) \o PaintCentral(shp),
   widgets |-> r.widgets, out |-> r.out]

render_with_no_panel(shp, wid, out, ins) ==
  LET r == InvokeWidgets(wid, out, ins, 1) IN
  [events |-> PaintCentral(shp) \o WidgetEvents(wid),
   widgets |-> r.widgets, out |-> r.out]

render(lay, shp, wid, out, ins) ==
  CASE lay = "TopPanel" -> render_with_top_panel(shp, wid, out, ins)
    [] lay = "SidePanel" -> render_with_side_panel(shp, wid, out, ins)
    [] lay = "NoPanel" -> render_with_no_panel(shp, wid, out, ins)

(* ------------------------- call record, history ------------------------ *)
\* last: the most recent call on the canvas, its arguments, its result and
\* the state it found.  hist: the shape operations since construction, kept
\* while they are only add_shape calls or a prefix of the scenario
\* add A, add B, add C, put_on_top_of(A, B), remove_shape(B).
Call(op, a, b, ret) ==
  [op |-> op, a |-> a, b |-> b, ret |-> ret, pre |-> shapes, preW |-> widgets,
   events |-> <<>>, outPre |-> <<>>, outPost |-> <<>>]

OpRec(op, a, b) == [op |-> op, a |-> a, b |-> b]

AllAdds(h) == \A i \in 1..Len(h) : h[i].op = "add_shape"

IsScenario(h) ==
  /\ Len(h) \in {4, 5}
  /\ AllAdds(SubSeq(h, 1, 3))
  /\ h[1].a # h[2].a /\ h[1].a # h[3].a /\ h[2].a # h[3].a
  /\ h[4] = OpRec("put_on_top_of", h[1].a, h[2].a)
  /\ Len(h) = 5 => h[5] = OpRec("remove_shape", h[2].a, None)

Track(h, rec) ==
  IF h.on /\ (AllAdds(Append(h.log, rec)) \/ IsScenario(Append(h.log, rec)))
  THEN [on |-> TRUE, log |-> Append(h.log, rec)]
  ELSE [on |-> FALSE, log |-> <<>>]

(* ------------------------------- actions -------------------------------- *)
\* No application is running: the TheApp fields hold no value.
NoApp ==
  /\ world = None /\ msgs = <<>> /\ last_toggle = 0 /\ now = 0
  /\ pc = [i |-> 0, drain |-> FALSE] /\ local = <<>>
  /\ flog = <<>> /\ updated = FALSE

\* BasicCanvas::new(layout, bkg)
Init ==
  /\ layout \in LayoutStyle
  /\ shapes = <<>>
  /\ widgets = <<>>
  /\ last = [op |-> "new", a |-> None, b |-> None, ret |-> TRUE, pre |-> <<>>,
             preW |-> <<>>, events |-> <<>>, outPre |-> <<>>, outPost |-> <<>>]
  /\ hist = [on |-> TRUE, log |-> <<>>]
  /\ bases = <<>>
  /\ NoApp

AddShape(h) ==
  /\ Len(shapes) < MaxShapes
  /\ shapes' = add_shape(shapes, h)
  /\ last' = Call("add_shape", h, None, TRUE)
  /\ hist' = Track(hist, OpRec("add_shape", h, None))
  /\ UNCHANGED <<layout, widgets, bases, appVars>>

PutOnTop(a) ==
  LET r == put_on_top_handle(shapes, a) IN
  /\ shapes' = r.shapes
  /\ last' = Call("put_on_top", a, None, r.ret)
  /\ hist' = Track(hist, OpRec("put_on_top", a, None))
  /\ UNCHANGED <<layout, widgets, bases, appVars>>

PutOnTopOf(a, b) ==
  LET r == put_on_top_of_handle(shapes, a, b) IN
  /\ shapes' = r.shapes
  /\ last' = Call("put_on_top_of", a, b, r.ret)
  /\ hist' = Track(hist, OpRec("put_on_top_of", a, b))
  /\ UNCHANGED <<layout, widgets, bases, appVars>>

RemoveShape(h) ==
  LET r == remove_shape_handle(shapes, h) IN
  /\ shapes' = r.shapes
  /\ last' = Call("remove_shape", h, None, r.ret)
  /\ hist' = Track(hist, OpRec("remove_shape", h, None))
  /\ UNCHANGED <<layout, widgets, bases, appVars>>

add_widget(ws, w) == Append(ws, w)

AddWidget(w) ==
  /\ Len(widgets) < MaxWidgets
  /\ widgets' = add_widget(widgets, w)
  /\ last' = Call("add_widget", None, None, TRUE)
  /\ UNCHANGED <<layout, shapes, hist, bases, appVars>>

Render(out, ins) ==
  LET r == render(layout, shapes, widgets, out, ins) IN
  /\ widgets' = r.widgets
  /\ last' = [Call("render", None, None, TRUE) EXCEPT
                !.events = r.events, !.outPre = out, !.outPost = r.out]
  /\ UNCHANGED <<layout, shapes, hist, bases, appVars>>

Next ==
  \/ \E h \in Handles : AddShape(h)
  \/ \E a \in Handles : PutOnTop(a)
  \/ \E a \in Handles, b \in Handles : PutOnTopOf(a, b)
  \/ \E h \in Handles : RemoveShape(h)
  \/ \E w \in WidgetSet : AddWidget(w)
  \/ \E out \in Buffers :
       \E ins \in [1..Len(widgets) -> Inputs] : Render(out, ins)

Spec == Init /\ [][Next]_vars

TypeOK ==
  /\ layout \in LayoutStyle
  /\ shapes \in Seq(Handles) /\ Len(shapes) <= MaxShapes
  /\ Len(widgets) <= MaxWidgets
  /\ \A i \in 1..Len(widgets) :
       widgets[i].kind \in {"Space", "Button", "Slider", "DragFloat"}

(* ------------------------------ properties ------------------------------ *)
Occurs(s, h) == \E i \in 1..Len(s) : s[i] = h

IsShapeEv(e) == e.ev = "shape"
IsWidgetEv(e) == e.ev = "widget"

\* the handles a render pass painted, in painting order
Painted(events) ==
  LET sh == SelectSeq(events, IsShapeEv) IN [i \in 1..Len(sh) |-> sh[i].arg]

\* the widget positions a render pass invoked, in invocation order
Invoked(events) ==
  LET wi == SelectSeq(events, IsWidgetEv) IN [i \in 1..Len(wi) |-> wi[i].arg]

\* the handles passed to add_shape, in call order
Added(h) == [i \in 1..Len(h.log) |-> h.log[i].a]

OnlyAdds == hist.on /\ AllAdds(hist.log)

\* C1: on a new canvas that has seen only add_shape calls, every add_shape
\* put its handle at the end of the shape sequence, so the sequence is the
\* handles in call order, and a render pass paints them in that order
\* (first added first, last added last).
C1_InsertionOrder ==
  /\ last.op = "add_shape" =>
       /\ Len(shapes) = Len(last.pre) + 1
       /\ shapes[Len(shapes)] = last.a
       /\ \A i \in 1..Len(last.pre) : shapes[i] = last.pre[i]
  /\ OnlyAdds => shapes = Added(hist)
  /\ (OnlyAdds /\ last.op = "render") => Painted(last.events) = Added(hist)

C1_Witness ==
  /\ OnlyAdds /\ Len(hist.log) = 3
  /\ hist.log[1].a # hist.log[2].a /\ hist.log[2].a # hist.log[3].a
  /\ last.op = "render"
  /\ Len(Painted(last.events)) = 3

\* C2: put_on_top(h) returns true exactly when h was in the shape sequence
\* before the call; when it returns true h is the last element afterwards,
\* wherever it was before, and a render pass paints the last element last.
C2_PutOnTop ==
  /\ last.op = "put_on_top" =>
       /\ last.ret <=> Occurs(last.pre, last.a)
       /\ last.ret => (Len(shapes) > 0 /\ shapes[Len(shapes)] = last.a)
  /\ (last.op = "render" /\ Len(shapes) > 0) =>
       LET p == Painted(last.events) IN
       Len(p) = Len(shapes) /\ p[Len(p)] = shapes[Len(shapes)]

C2_Witness ==
  /\ last.op = "put_on_top" /\ last.ret
  /\ Len(last.pre) = 3
  /\ last.pre[1] = last.a
  /\ shapes # last.pre

\* C3: for distinct a and b that are both in the shape sequence,
\* put_on_top_of(a, b) returns true and afterwards the entry right after b
\* is a, whether a was before or behind b.
C3_PutOnTopOf ==
  (/\ last.op = "put_on_top_of"
   /\ last.a # last.b
   /\ Occurs(last.pre, last.a)
   /\ Occurs(last.pre, last.b)) =>
     /\ last.ret
     /\ LET ib == index_of_handle(shapes, last.b) IN
        /\ ib # None
        /\ ib < Len(shapes)
        /\ shapes[ib + 1] = last.a

\* a was two places before b
C3_Witness ==
  /\ last.op = "put_on_top_of" /\ last.ret
  /\ Len(last.pre) = 3
  /\ last.pre[1] = last.a /\ last.pre[3] = last.b
  /\ last.pre[2] # last.a /\ last.pre[2] # last.b /\ last.a # last.b
  /\ shapes = <<last.pre[2], last.b, last.a>>

DirectlyBefore(s, x, y) ==
  /\ index_of_handle(s, x) # None
  /\ index_of_handle(s, y) = index_of_handle(s, x) + 1

\* C4 (as stated): when a is directly before b (a at index i, b at i+1),
\* put_on_top_of(a, b) returns true and leaves the shape sequence as it was.
C4_Original ==
  (last.op = "put_on_top_of" /\ DirectlyBefore(last.pre, last.a, last.b)) =>
     (last.ret /\ shapes = last.pre)

\* C4 (amended): when a is already directly behind b (b at index i, a at
\* i+1), put_on_top_of(a, b) returns true and leaves the shape sequence as
\* it was; when a is directly before b it returns true and the two swap.
C4_Amended ==
  /\ (last.op = "put_on_top_of" /\ DirectlyBefore(last.pre, last.b, last.a)) =>
       (last.ret /\ shapes = last.pre)
  /\ (last.op = "put_on_top_of" /\ DirectlyBefore(last.pre, last.a, last.b)) =>
       /\ last.ret
       /\ LET i == index_of_handle(last.pre, last.a) IN
          shapes = [last.pre EXCEPT ![i] = last.b, ![i + 1] = last.a]

C4_Witness ==
  /\ last.op = "put_on_top_of" /\ last.ret
  /\ Len(last.pre) = 3
  /\ last.pre[1] = last.b /\ last.pre[2] = last.a /\ last.a # last.b
  /\ last.pre[3] # last.a /\ last.pre[3] # last.b
  /\ shapes = last.pre

\* C5: remove_shape(h) on a canvas that contains h returns true and removes
\* exactly one entry, one holding h, leaving the others in place; a
\* remove_shape(h) directly after a successful remove_shape(h) returns false.
C5_RemoveOnce ==
  [][\A h \in Handles : RemoveShape(h) =>
       /\ Occurs(shapes, h) =>
            /\ last'.ret
            /\ \E i \in 1..Len(shapes) :
                 shapes[i] = h /\ shapes' = VecRemove(shapes, i)
       /\ (last.op = "remove_shape" /\ last.a = h /\ last.ret) => ~last'.ret
    ]_vars

\* C6: the shape sequence never holds the same identity twice.
C6_NoDuplicates ==
  \A i \in 1..Len(shapes) : \A j \in 1..Len(shapes) :
    i # j => shapes[i] # shapes[j]

\* C7: put_on_top(h) with h absent, put_on_top_of(a, b) with a or b absent
\* and remove_shape(h) with h absent return false and leave the shape
\* sequence and the widget list as they were.
C7_NotFoundInert ==
  LET miss ==
        \/ last.op = "put_on_top" /\ ~Occurs(last.pre, last.a)
        \/ last.op = "put_on_top_of" /\ ~Occurs(last.pre, last.a)
        \/ last.op = "put_on_top_of" /\ ~Occurs(last.pre, last.b)
        \/ last.op = "remove_shape" /\ ~Occurs(last.pre, last.a)
  IN miss => (last.ret = FALSE /\ shapes = last.pre /\ widgets = last.preW)

C7_Witness ==
  /\ last.op = "put_on_top_of" /\ last.ret = FALSE
  /\ Occurs(last.pre, last.b) /\ ~Occurs(last.pre, last.a)
  /\ Len(shapes) >= 2 /\ Len(widgets) >= 1

C7_WitnessRemove ==
  /\ last.op = "remove_shape" /\ last.ret = FALSE
  /\ Len(shapes) >= 2 /\ Len(widgets) >= 1

\* C8: put_on_top(h) when h is already the last shape, and
\* put_on_top_of(a, b) when a and b are the same present identity, return
\* true and leave the shape sequence as it was.
C8_DegenerateNoOp ==
  /\ (/\ last.op = "put_on_top"
      /\ Len(last.pre) > 0
      /\ last.pre[Len(last.pre)] = last.a) =>
       (last.ret /\ shapes = last.pre)
  /\ (/\ last.op = "put_on_top_of"
      /\ last.a = last.b
      /\ Occurs(last.pre, last.a)) =>
       (last.ret /\ shapes = last.pre)

\* C9: from an empty canvas, add A, add B, add C (distinct) and then
\* put_on_top_of(A, B) give the order [B, A, C]; remove_shape(B) right after
\* gives [A, C].
C9_Scenario ==
  (hist.on /\ IsScenario(hist.log)) =>
     LET A == hist.log[1].a
         B == hist.log[2].a
         C == hist.log[3].a
     IN /\ Len(hist.log) = 4 => shapes = <<B, A, C>>
        /\ Len(hist.log) = 5 => shapes = <<A, C>>

C9_Witness ==
  /\ hist.on /\ IsScenario(hist.log) /\ Len(hist.log) = 5
  /\ last.op = "remove_shape" /\ last.ret
  /\ last.pre = <<hist.log[2].a, hist.log[1].a, hist.log[3].a>>

StepsBefore(events, k1, k2) ==
  \A i \in 1..Len(events) : \A j \in 1..Len(events) :
    (events[i].ev = k1 /\ events[j].ev = k2) => i < j

OneBackground(events) ==
  Cardinality({i \in 1..Len(events) : events[i].ev = "background"}) = 1

\* C10 (as stated): in every layout a render pass fills the background,
\* then paints all shapes in list order, and only then invokes the widgets.
C10_Original ==
  last.op = "render" =>
    /\ OneBackground(last.events)
    /\ Painted(last.events) = shapes
    /\ StepsBefore(last.events, "background", "shape")
    /\ StepsBefore(last.events, "shape", "widget")
    /\ StepsBefore(last.events, "background", "widget")

\* C10 (amended): a render pass fills the background once, before the first
\* shape, and paints all shapes in list order without a widget in between.
\* With NoPanel the widgets are invoked after the last shape; with TopPanel
\* and SidePanel every widget is invoked before the background is filled.
C10_Amended ==
  last.op = "render" =>
    /\ OneBackground(last.events)
    /\ Painted(last.events) = shapes
    /\ Invoked(last.events) = [i \in 1..Len(widgets) |-> i]
    /\ StepsBefore(last.events, "background", "shape")
    /\ layout = "NoPanel" =>
         /\ StepsBefore(last.events, "shape", "widget")
         /\ StepsBefore(last.events, "background", "widget")
    /\ layout \in {"TopPanel", "SidePanel"} =>
         /\ StepsBefore(last.events, "widget", "background")
         /\ StepsBefore(last.events, "widget", "shape")

C10_Witness ==
  /\ last.op = "render"
  /\ layout = "NoPanel"
  /\ Len(shapes) >= 2 /\ Len(widgets) >= 1
  /\ last.events[Len(last.events)].ev = "widget"

C10_WitnessPanel ==
  /\ last.op = "render"
  /\ layout = "TopPanel"
  /\ Len(shapes) >= 2 /\ Len(widgets) >= 1
  /\ last.events[1].ev = "widget"

Count(s, h) == Cardinality({i \in 1..Len(s) : s[i] = h})

\* C19: put_on_top and put_on_top_of only permute the shape sequence: same
\* length, same number of entries of every identity, and with the moved
\* entry of a taken out the sequence before and after are equal;
\* remove_shape leaves the remaining entries in their order.
C19_OnlyPermute ==
  /\ last.op \in {"put_on_top", "put_on_top_of"} =>
       /\ Len(shapes) = Len(last.pre)
       /\ \A h \in Handles : Count(shapes, h) = Count(last.pre, h)
       /\ \/ shapes = last.pre
          \/ \E i \in 1..Len(last.pre) : \E j \in 1..Len(shapes) :
               /\ last.pre[i] = last.a
               /\ shapes[j] = last.a
               /\ VecRemove(last.pre, i) = VecRemove(shapes, j)
  /\ last.op = "remove_shape" =>
       \/ shapes = last.pre
       \/ \E i \in 1..Len(last.pre) : shapes = VecRemove(last.pre, i)

C19_Witness ==
  /\ last.op = "put_on_top" /\ last.ret
  /\ Len(last.pre) = 3
  /\ last.pre[1] = last.a
  /\ last.pre[2] # last.pre[3]
  /\ shapes = <<last.pre[2], last.pre[3], last.a>>

(* ------------------------------ ShapeBase ------------------------------- *)
\* f32 lengths are kept in quarter units: 1.0 is 4, so 2.0 is 8 and 0.5 is 2.
DefaultLineWidth == 8

\* impl Default for ShapeBase; Circle::new / Rectangle::new / Polyline::new
\* take the location and leave the rest at the default.
ShapeBase_default(x) ==
  [x |-> x, color |-> "BLACK", fill_color |-> "TRANSPARENT",
   line_width |-> DefaultLineWidth, line_style |-> "Solid"]

set_line_width(b, lw) == [b EXCEPT !.line_width = lw]

set_fill_color(b, col) == [b EXCEPT !.fill_color = col]

set_color(b, col) == [b EXCEPT !.color = col]

set_line_style(b, ls) == [b EXCEPT !.line_style = ls]

move_to(b, x) == [b EXCEPT !.x = x]

\* 4.0 * w, 1.0 + 2.0 * w, w / 2.0, 1.0 + 2.0 * w  (quarter units)
dash_length(b) == 4 * b.line_width
dash_gap(b) == 4 + (2 * b.line_width)
dot_radius(b) == b.line_width \div 2
dot_spacing(b) == 4 + (2 * b.line_width)

\* Widths and fill colours given to the setters: -1.0, 0.0, 0.5, 2.0, 4.0.
Widths == {-4, 0, 2, 8, 16}
Fills == {"RED", "GREEN"}

NewShape(h) ==
  /\ h \notin DOMAIN bases
  /\ bases' = bases @@ (h :> ShapeBase_default(0))
  /\ UNCHANGED <<canvasVars, appVars>>

SetLineWidth(h, lw) ==
  /\ h \in DOMAIN bases
  /\ bases' = [bases EXCEPT ![h] = set_line_width(@, lw)]
  /\ UNCHANGED <<canvasVars, appVars>>

SetFillColor(h, col) ==
  /\ h \in DOMAIN bases
  /\ bases' = [bases EXCEPT ![h] = set_fill_color(@, col)]
  /\ UNCHANGED <<canvasVars, appVars>>

NextShape ==
  \/ \E h \in Handles : NewShape(h)
  \/ \E h \in Handles, lw \in Widths : SetLineWidth(h, lw)
  \/ \E h \in Handles, col \in Fills : SetFillColor(h, col)

SpecShape == Init /\ [][NextShape]_vars

\* C16: every shape's line width is non-negative, and so are the dash
\* length, dash gap, dot radius and dot spacing derived from it.
C16_NonNegativeWidth ==
  \A h \in DOMAIN bases :
    /\ bases[h].line_width >= 0
    /\ dash_length(bases[h]) >= 0
    /\ dash_gap(bases[h]) >= 0
    /\ dot_radius(bases[h]) >= 0
    /\ dot_spacing(bases[h]) >= 0

(* ----------------------- canvas with several widgets -------------------- *)
\* A canvas that already holds some shapes; widgets of every kind are added
\* and render is called with any interaction and any buffer.
MaxWidgetsW == 2

WidgetSetW ==
  {Space(None), Button(BTN_STATE_A), Button(BTN_STATE_B),
   Slider(SLIDER_GAUGE, 0), DragFloat(DRAGFLOAT_GAUGE, 0)}
InputsW == {NoInput, 1}
ShapeListsW ==
  {<<>>, add_shape(add_shape(<<>>, 1), 2),
   add_shape(add_shape(add_shape(<<>>, 3), 1), 2)}

InitWidgets ==
  /\ layout \in LayoutStyle
  /\ shapes \in ShapeListsW
  /\ widgets = <<>>
  /\ last = [op |-> "new", a |-> None, b |-> None, ret |-> TRUE, pre |-> <<>>,
             preW |-> <<>>, events |-> <<>>, outPre |-> <<>>, outPost |-> <<>>]
  /\ hist = [on |-> FALSE, log |-> <<>>]
  /\ bases = <<>>
  /\ NoApp

AddWidgetW(w) ==
  /\ Len(widgets) < MaxWidgetsW
  /\ widgets' = add_widget(widgets, w)
  /\ last' = Call("add_widget", None, None, TRUE)
  /\ UNCHANGED <<layout, shapes, hist, bases, appVars>>

NextWidgets ==
  \/ \E w \in WidgetSetW : AddWidgetW(w)
  \/ \E out \in Buffers :
       \E ins \in [1..Len(widgets) -> InputsW] : Render(out, ins)

SpecWidgets == InitWidgets /\ [][NextWidgets]_vars

IsPrefix(p, s) == Len(p) <= Len(s) /\ SubSeq(s, 1, Len(p)) = p

\* message m can have been emitted by widget w (w as it is after the pass)
EmittedBy(m, w) ==
  \/ w.kind = "Button" /\ m = ButtonClicked(w.id)
  \/ w.kind = "Slider" /\ m = SliderChanged(w.id, w.value)
  \/ w.kind = "DragFloat" /\ m = DragFloatChanged(w.id, w.value)

\* C11: render removes nothing from the caller's buffer: what it held before
\* the call is a prefix of what it holds after, and the messages appended
\* come from widgets at increasing list positions (an earlier widget's
\* message stands before a later widget's).
C11_AppendInListOrder ==
  last.op = "render" =>
    /\ IsPrefix(last.outPre, last.outPost)
    /\ LET n == Len(last.outPost) - Len(last.outPre)
           new == SubSeq(last.outPost, Len(last.outPre) + 1, Len(last.outPost))
       IN \E f \in [1..n -> 1..Len(widgets)] :
            /\ \A k \in 1..n : EmittedBy(new[k], widgets[f[k]])
            /\ \A k \in 1..n : \A l \in 1..n : k < l => f[k] < f[l]

C11_Witness ==
  /\ last.op = "render"
  /\ Len(last.outPre) = 1
  /\ Len(last.outPost) = 3
  /\ Len(widgets) = 2
  /\ widgets[1].kind = "Slider" /\ widgets[2].kind = "Button"
  /\ last.outPost[2].tag = "SliderChanged"
  /\ last.outPost[3].tag = "ButtonClicked"

\* whether the interaction of widget w fired under input inp
Fired(w, inp) ==
  \/ w.kind = "Button" /\ inp # NoInput
  \/ w.kind \in {"Slider", "DragFloat"} /\ inp # NoInput /\ inp # w.value

\* the message a fired widget must emit
MsgOf(w, inp) ==
  CASE w.kind = "Button" -> ButtonClicked(w.id)
    [] w.kind = "Slider" -> SliderChanged(w.id, inp)
    [] w.kind = "DragFloat" -> DragFloatChanged(w.id, inp)
    [] OTHER -> None

RECURSIVE FiredMsgs(_, _, _)
FiredMsgs(wid, ins, i) ==
  IF i > Len(wid) THEN <<>>
  ELSE (IF Fired(wid[i], ins[i]) THEN <<MsgOf(wid[i], ins[i])>> ELSE <<>>)
         \o FiredMsgs(wid, ins, i + 1)

\* C12: a render pass appends, for each widget whose interaction fired in
\* the frame and for no other, exactly one message: ButtonClicked with the
\* button's own id for a clicked Button, nothing for a Button that was not
\* clicked and nothing for a Space; so at most one message per widget.
C12_OneMessagePerFiredWidget ==
  [][\A ins \in [1..Len(widgets) -> InputsW] :
       (last'.op = "render" /\ Render(last'.outPre, ins)) =>
         /\ last'.outPost = last'.outPre \o FiredMsgs(widgets, ins, 1)
         /\ Len(last'.outPost) - Len(last'.outPre) <= Len(widgets)
         /\ \A i \in 1..Len(widgets) :
              /\ widgets[i].kind = "Space" => ~Fired(widgets[i], ins[i])
              /\ (widgets[i].kind = "Button" /\ ins[i] = NoInput) =>
                   ~Fired(widgets[i], ins[i])
    ]_vars

C12_Witness ==
  /\ last.op = "render"
  /\ Len(widgets) = 2
  /\ widgets[1] = Button(BTN_STATE_B) /\ widgets[2] = Button(BTN_STATE_A)
  /\ last.outPre = <<>>
  /\ last.outPost = <<ButtonClicked(BTN_STATE_B)>>

NoInteraction == [i \in 1..Len(widgets) |-> NoInput]

\* C15: a render call in which no widget is interacted with leaves the
\* shape sequence, the widget list and the widget values as they were,
\* leaves an empty buffer empty, and paints the shapes in list order, hence
\* in the same order as the render call before it.
C15_RenderIdempotent ==
  [][\A out \in Buffers : Render(out, NoInteraction) =>
       /\ shapes' = shapes
       /\ widgets' = widgets
       /\ last'.outPost = out
       /\ Painted(last'.events) = shapes
       /\ last.op = "render" => Painted(last'.events) = Painted(last.events)
    ]_vars

C15_Witness ==
  /\ last.op = "render"
  /\ last.outPre = <<>> /\ last.outPost = <<>>
  /\ Len(widgets) = 2
  /\ widgets[1].kind = "Slider" /\ widgets[1].value = 1
  /\ widgets[2].kind = "Button"
  /\ last.preW = widgets
  /\ Len(Painted(last.events)) = 3

(* ------------------------------ demo world ------------------------------ *)
\* TheWorld::new
TheWorld_new == [state |-> 0, tl |-> "Stop", thing |-> "StateC", gauge |-> 0]

\* variant: the light stays Go once it is Go
toggle_light_stuck(w) == [w EXCEPT !.tl = "Go"]

toggle_light(w) == [w EXCEPT !.tl = IF w.tl = "Stop" THEN "Go" ELSE "Stop"]

\* impl World for TheWorld: advance
advance(w) == toggle_light([w EXCEPT !.state = w.state + 1])

handle_button(w, id) ==
  CASE id = BTN_STATE_A -> [w EXCEPT !.thing = "StateA"]
    [] id = BTN_STATE_B -> [w EXCEPT !.thing = "StateB"]
    [] OTHER -> w

\* variant: SLIDER_ANOTHER moves the gauge pointer too
handle_slider_another(w, id, value) ==
  CASE id = SLIDER_GAUGE -> [w EXCEPT !.gauge = value]
    [] id = SLIDER_ANOTHER -> [w EXCEPT !.gauge = value]
    [] OTHER -> w

handle_slider(w, id, value) ==
  CASE id = SLIDER_GAUGE -> [w EXCEPT !.gauge = value]
    [] id = SLIDER_ANOTHER -> w
    [] OTHER -> w

handle_drag_float(w, id, value) ==
  CASE id = DRAGFLOAT_GAUGE -> [w EXCEPT !.gauge = value]
    [] OTHER -> w

handle_msg(w, msg) ==
  CASE msg.tag = "ButtonClicked" -> handle_button(w, msg.id)
    [] msg.tag = "SliderChanged" -> handle_slider(w, msg.id, msg.value)
    [] msg.tag = "DragFloatChanged" -> handle_drag_float(w, msg.id, msg.value)

(* ------------------------------ demo canvas ----------------------------- *)
\* The shapes of TheCanvas, by identity, in the order TheCanvas::new
\* creates them: the unnamed vees, then sc1, sc2, sr, sp, gauge, arrow_head.
NumVees == 22
SC1 == NumVees + 1
SC2 == NumVees + 2
SR == NumVees + 3
SP == NumVees + 4
GAUGE == NumVees + 5
ARROW_HEAD == NumVees + 6

TheCanvas_bases ==
  [h \in 1..ARROW_HEAD |->
     CASE h <= NumVees -> ShapeBase_default(150)
       [] h = SC1 ->
            set_fill_color(set_line_width(ShapeBase_default(200), 16), "GRAY")
       [] h = SC2 -> ShapeBase_default(200)
       [] h = SR -> set_fill_color(ShapeBase_default(400), "LIGHT_GRAY")
       [] h = SP ->
            set_line_style(
              set_line_width(
                set_line_width(set_color(ShapeBase_default(550), "RED"), 8), 16),
              "Dotted")
       [] h = GAUGE -> set_fill_color(ShapeBase_default(500), "LIGHT_GRAY")
       [] h = ARROW_HEAD -> set_line_width(ShapeBase_default(100), 8)]

RECURSIVE AddShapes(_, _, _)
AddShapes(s, h, n) == IF h > n THEN s ELSE AddShapes(add_shape(s, h), h + 1, n)

\* TheCanvas::new
TheCanvas_new ==
  [layout |-> "TopPanel",
   shapes |-> AddShapes(<<>>, 1, ARROW_HEAD),
   widgets |->
     add_widget(
       add_widget(
         add_widget(add_widget(<<>>, Button(BTN_STATE_A)), Space(50)),
         Button(BTN_STATE_B)),
       DragFloat(DRAGFLOAT_GAUGE, 0)),
   bases |-> TheCanvas_bases]

\* TheCanvas::update
TheCanvas_update(b, w) ==
  LET tlc == IF w.tl = "Stop" THEN "RED" ELSE "GREEN"
      b1 == [b EXCEPT ![SC2] = set_fill_color(@, tlc)]
      b2 == [b1 EXCEPT ![ARROW_HEAD] = move_to(@, 100 + (8 * w.gauge))]
  IN CASE w.thing = "StateA" -> [b2 EXCEPT ![SR] = set_fill_color(@, "GOLD")]
       [] w.thing = "StateB" -> [b2 EXCEPT ![SR] = set_fill_color(@, "CYAN")]
       [] OTHER -> b2


(* ------------------------------ frame loop ------------------------------ *)
\* Time is counted in quarters of a second: the literal 0.5 of the gate.
TogglePeriod == 2
\* the clock of the host stops at MaxTime
MaxTime == 5

TimeInputs == 0..MaxTime
InputsA == {NoInput} \cup Values

LogEv(ev, ms) == [ev |-> ev, msg |-> ms]

\* variant: the statements run in another order, the buffer is drained
\* before it is cleared and filled
update_steps_late == <<"gate", "dispatch", "clear", "render", "repaint">>

\* TheApp::update, its statements in program order
update_steps == <<"gate", "clear", "render", "dispatch", "repaint">>

At(step) == pc.i > 0 /\ update_steps[pc.i] = step /\ ~pc.drain

NextStep == [i |-> (pc.i % Len(update_steps)) + 1, drain |-> FALSE]

\* variant: the gate opens only after more than the period
gate_strict(t, lt, w, b) ==
  IF t - lt > TogglePeriod
  THEN [last_toggle |-> t, world |-> advance(w),
        bases |-> TheCanvas_update(b, advance(w)),
        log |-> <<LogEv("advance", <<>>), LogEv("update", <<>>)>>]
  ELSE [last_toggle |-> lt, world |-> w, bases |-> b, log |-> <<>>]

\* variant: the canvas is not updated after the advance
gate_no_update(t, lt, w, b) ==
  IF t - lt >= TogglePeriod
  THEN [last_toggle |-> t, world |-> advance(w), bases |-> b,
        log |-> <<LogEv("advance", <<>>)>>]
  ELSE [last_toggle |-> lt, world |-> w, bases |-> b, log |-> <<>>]

\* if now - self.last_toggle >= 0.5 { last_toggle = now; advance; update }
gate(t, lt, w, b) ==
  IF t - lt >= TogglePeriod
  THEN [last_toggle |-> t, world |-> advance(w),
        bases |-> TheCanvas_update(b, advance(w)),
        log |-> <<LogEv("advance", <<>>), LogEv("update", <<>>)>>]
  ELSE [last_toggle |-> lt, world |-> w, bases |-> b, log |-> <<>>]

\* variant: every second message of the drained buffer is dropped
drain_step_skip(w, b, q) ==
  [world |-> handle_msg(w, Head(q)), bases |-> b,
   rest |-> IF Len(q) >= 2 THEN Tail(Tail(q)) ELSE <<>>,
   log |-> <<LogEv("handle", <<Head(q)>>)>>]

\* variant: the canvas is updated after each message
drain_step_eager(w, b, q) ==
  [world |-> handle_msg(w, Head(q)),
   bases |-> TheCanvas_update(b, handle_msg(w, Head(q))),
   rest |-> Tail(q),
   log |-> <<LogEv("handle", <<Head(q)>>), LogEv("update", <<>>)>>]

\* for msg in msgs.drain(..) { self.handle_msg(msg); }   (one iteration)
drain_step(w, b, q) ==
  [world |-> handle_msg(w, Head(q)), bases |-> b, rest |-> Tail(q),
   log |-> <<LogEv("handle", <<Head(q)>>)>>]

\* TheApp::new
InitApp ==
  /\ layout = TheCanvas_new.layout
  /\ shapes = TheCanvas_new.shapes
  /\ widgets = TheCanvas_new.widgets
  /\ bases = TheCanvas_new.bases
  /\ last = [op |-> "new", a |-> None, b |-> None, ret |-> TRUE, pre |-> <<>>,
             preW |-> <<>>, events |-> <<>>, outPre |-> <<>>, outPost |-> <<>>]
  /\ hist = [on |-> FALSE, log |-> <<>>]
  /\ world = TheWorld_new
  /\ msgs = <<>>
  /\ last_toggle = 0
  /\ now = 0
  /\ pc = [i |-> 1, drain |-> FALSE]
  /\ local = <<>>
  /\ flog = <<>>
  /\ updated = FALSE

\* let now = ctx.input(|i| i.time); if now - self.last_toggle >= 0.5 {..}
Gate(t) ==
  LET g == gate(t, last_toggle, world, bases) IN
  /\ At("gate")
  /\ t >= now
  /\ now' = t
  /\ last_toggle' = g.last_toggle
  /\ world' = g.world
  /\ bases' = g.bases
  /\ flog' = flog \o g.log
  /\ updated' = (updated \/ g.log # <<>>)
  /\ pc' = NextStep
  /\ UNCHANGED <<canvasVars, msgs, local>>

\* self.msgs.clear()
Clear ==
  /\ At("clear")
  /\ msgs' = <<>>
  /\ flog' = Append(flog, LogEv("clear", <<>>))
  /\ pc' = NextStep
  /\ UNCHANGED <<canvasVars, bases, world, last_toggle, now, local, updated>>

\* self.canvas.canvas.render(ctx, &mut self.msgs)
RenderFrame(ins) ==
  LET r == render(layout, shapes, widgets, msgs, ins) IN
  /\ At("render")
  /\ widgets' = r.widgets
  /\ msgs' = r.out
  /\ last' = [Call("render", None, None, TRUE) EXCEPT
                !.events = r.events, !.outPre = msgs, !.outPost = r.out]
  /\ flog' = Append(flog, LogEv("render", SubSeq(r.out, Len(msgs) + 1, Len(r.out))))
  /\ pc' = NextStep
  /\ UNCHANGED <<layout, shapes, hist, bases, world, last_toggle, now, local,
                 updated>>

\* if !self.msgs.is_empty() { let mut msgs = std::mem::take(&mut self.msgs);
DispatchBegin ==
  /\ At("dispatch")
  /\ IF msgs = <<>>
     THEN pc' = NextStep /\ UNCHANGED <<msgs, local>>
     ELSE pc' = [pc EXCEPT !.drain = TRUE] /\ local' = msgs /\ msgs' = <<>>
  /\ UNCHANGED <<canvasVars, bases, world, last_toggle, now, flog, updated>>

\* one iteration of the for loop over msgs.drain(..)
HandleNext ==
  /\ pc.drain /\ local # <<>>
  /\ LET d == drain_step(world, bases, local) IN
       /\ world' = d.world
       /\ bases' = d.bases
       /\ local' = d.rest
       /\ flog' = flog \o d.log
       /\ updated' = (updated \/ Len(d.log) > 1)
  /\ UNCHANGED <<canvasVars, msgs, last_toggle, now, pc>>

\* self.msgs = msgs; self.canvas.update(&self.world); }
DispatchEnd ==
  /\ pc.drain /\ local = <<>>
  /\ msgs' = local
  /\ bases' = TheCanvas_update(bases, world)
  /\ updated' = TRUE
  /\ flog' = Append(flog, LogEv("update", <<>>))
  /\ pc' = NextStep
  /\ UNCHANGED <<canvasVars, world, last_toggle, now, local>>

\* ctx.request_repaint_after(..): the frame ends, the host calls update again
Repaint ==
  /\ At("repaint")
  /\ pc' = NextStep
  /\ flog' = <<>>
  /\ UNCHANGED <<canvasVars, bases, world, msgs, last_toggle, now, local,
                 updated>>

NextApp ==
  \/ \E t \in TimeInputs : Gate(t)
  \/ Clear
  \/ \E ins \in [1..Len(widgets) -> InputsA] : RenderFrame(ins)
  \/ DispatchBegin
  \/ HandleNext
  \/ DispatchEnd
  \/ Repaint

SpecApp == InitApp /\ [][NextApp]_vars


(* ------------------------- frame loop properties ------------------------ *)
\* the messages handled so far in the current frame, in handling order
HandledMsgs ==
  LET hs == SelectSeq(flog, LAMBDA e : e.ev = "handle")
  IN [i \in 1..Len(hs) |-> hs[i].msg[1]]

RenderEvs == SelectSeq(flog, LAMBDA e : e.ev = "render")

\* the messages the render pass of the current frame appended
EmittedMsgs == IF RenderEvs = <<>> THEN <<>> ELSE RenderEvs[1].msg

GateStep == \E t \in TimeInputs : Gate(t)

\* C18: the world is advanced in a frame iff the sampled time minus the time
\* recorded at the previous advance is at least 0.5; the advance then sets
\* the recorded time to the sampled time and happens once (the tick counter
\* grows by one, the light toggles); a gate that does not meet the threshold
\* leaves world and recorded time alone, and no other step of the frame
\* advances the world or touches the recorded time, so two consecutive
\* advances are sampled at least 0.5 apart.
C18_TimeGate ==
  [][IF GateStep
     THEN IF now' - last_toggle >= TogglePeriod
          THEN /\ world'.state = world.state + 1
               /\ world'.tl # world.tl
               /\ last_toggle' = now'
               /\ last_toggle' - last_toggle >= TogglePeriod
          ELSE world' = world /\ last_toggle' = last_toggle
     ELSE /\ world'.state = world.state
          /\ world'.tl = world.tl
          /\ last_toggle' = last_toggle]_vars

\* two advances have happened and the gate of the current frame stayed shut
C18_Witness ==
  /\ At("clear") /\ flog = <<>>
  /\ world.state = 2
  /\ now > last_toggle /\ now - last_toggle < TogglePeriod

\* C13: the messages a frame's render pass appended are handled exactly
\* once, in that frame and in emission order; the buffer is empty when the
\* frame ends and when the render pass begins.
C13_HandledOnceInOrder ==
  /\ IsPrefix(HandledMsgs, EmittedMsgs)
  /\ pc.drain => HandledMsgs \o local = EmittedMsgs
  /\ At("repaint") => msgs = <<>> /\ local = <<>> /\ HandledMsgs = EmittedMsgs
  /\ At("render") => msgs = <<>> /\ HandledMsgs = <<>>

\* a frame ends after three messages were emitted and handled
C13_Witness ==
  /\ At("repaint")
  /\ Len(EmittedMsgs) = 3
  /\ HandledMsgs = EmittedMsgs

\* C14: within a frame every message is handled after the render pass has
\* completed (background and every shape painted, every widget invoked),
\* there is one render pass per frame, and when a render pass begins no
\* message is being or remains to be handled.
C14_NoInterleaving ==
  /\ Len(RenderEvs) <= 1
  /\ \A i \in 1..Len(flog) :
       flog[i].ev = "handle" => \E j \in 1..(i - 1) : flog[j].ev = "render"
  /\ pc.drain =>
       /\ last.op = "render"
       /\ Painted(last.events) = shapes
       /\ Len(Invoked(last.events)) = Len(widgets)
  /\ At("render") => ~pc.drain /\ local = <<>> /\ msgs = <<>>

\* a message is being handled after a complete render pass
C14_Witness ==
  /\ pc.drain /\ Len(local) = 1 /\ Len(HandledMsgs) = 1
  /\ Painted(last.events) = shapes

\* C17: in a frame whose render pass produced messages TheCanvas::update
\* runs exactly once after the last message is handled and never between
\* two messages; in a frame without messages it does not run after the
\* render pass.
C17_UpdateOnceAfterMessages ==
  LET after(k) == \E j \in 1..(k - 1) : flog[j].ev = "render"
      upd == {k \in 1..Len(flog) : flog[k].ev = "update" /\ after(k)}
  IN /\ \A k \in upd : \A j \in (k + 1)..Len(flog) : flog[j].ev # "handle"
     /\ Cardinality(upd) <= 1
     /\ At("repaint") =>
          IF EmittedMsgs # <<>>
          THEN /\ Cardinality(upd) = 1
               /\ flog[Len(flog)].ev = "update"
               /\ flog[Len(flog) - 1].ev = "handle"
          ELSE upd = {}

\* a frame ends whose two messages were followed by one update
C17_Witness ==
  /\ At("repaint")
  /\ Len(EmittedMsgs) = 2
  /\ flog[Len(flog)].ev = "update"

\* C20: once TheCanvas::update has run, every render pass starts from shapes
\* that agree with the world: sc2 is RED exactly when the light is Stop and
\* GREEN exactly when it is Go, sr is GOLD in StateA and CYAN in StateB.
C20_PaintedConsistent ==
  (At("render") /\ updated) =>
    /\ (bases[SC2].fill_color = "RED") <=> (world.tl = "Stop")
    /\ (bases[SC2].fill_color = "GREEN") <=> (world.tl = "Go")
    /\ world.thing = "StateA" => bases[SR].fill_color = "GOLD"
    /\ world.thing = "StateB" => bases[SR].fill_color = "CYAN"

\* a render pass starts with the light Go and the thing in StateB
C20_Witness ==
  /\ At("render") /\ updated
  /\ world.tl = "Go" /\ world.thing = "StateB"
  /\ bases[SC2].fill_color = "GREEN" /\ bases[SR].fill_color = "CYAN"


(* --------------------------- world and dispatch ------------------------- *)
\* The world of TheApp driven one call at a time: advance() and handle_msg
\* with any message, also with ids no widget of the demo carries.
MaxId == 3
MaxPointer == 2
MaxTicks == 3

IdsD == 1..MaxId
PointersD == 0..MaxPointer
MsgsD ==
  {ButtonClicked(id) : id \in IdsD}
    \cup {SliderChanged(id, v) : id \in IdsD, v \in PointersD}
    \cup {DragFloatChanged(id, v) : id \in IdsD, v \in PointersD}

\* TheApp::new, before the first frame
InitWorld ==
  /\ layout = "TopPanel"
  /\ shapes = <<>>
  /\ widgets = <<>>
  /\ bases = <<>>
  /\ last = [op |-> "new", a |-> None, b |-> None, ret |-> TRUE, pre |-> <<>>,
             preW |-> <<>>, events |-> <<>>, outPre |-> <<>>, outPost |-> <<>>]
  /\ hist = [on |-> FALSE, log |-> <<>>]
  /\ world = TheWorld_new
  /\ msgs = <<>>
  /\ last_toggle = 0
  /\ now = 0
  /\ pc = [i |-> 0, drain |-> FALSE]
  /\ local = <<>>
  /\ flog = <<>>
  /\ updated = FALSE

\* self.world.advance()
WorldAdvance ==
  /\ world.state < MaxTicks
  /\ world' = advance(world)
  /\ last' = Call("advance", None, None, TRUE)
  /\ UNCHANGED <<layout, shapes, widgets, hist, bases, msgs, last_toggle, now,
                 pc, local, flog, updated>>

\* self.handle_msg(msg)
DispatchMsg(m) ==
  /\ world' = handle_msg(world, m)
  /\ last' = Call(m.tag, m.id, m.value, TRUE)
  /\ UNCHANGED <<layout, shapes, widgets, hist, bases, msgs, last_toggle, now,
                 pc, local, flog, updated>>

NextWorld ==
  \/ WorldAdvance
  \/ \E m \in MsgsD : DispatchMsg(m)

SpecWorld == InitWorld /\ [][NextWorld]_vars


\* C21: dispatch changes only what the message's id names: ButtonClicked
\* with BTN_STATE_A / BTN_STATE_B sets the thing to StateA / StateB,
\* SliderChanged with SLIDER_GAUGE and DragFloatChanged with DRAGFLOAT_GAUGE
\* set the gauge pointer to the carried value, any other message leaves the
\* whole world unchanged; no message changes the light or the tick counter,
\* and no step takes the thing back to StateC.
C21_DispatchEffect ==
  [][/\ world.thing # "StateC" => world'.thing # "StateC"
     /\ \A m \in MsgsD : DispatchMsg(m) =>
          /\ world'.tl = world.tl
          /\ world'.state = world.state
          /\ CASE m = ButtonClicked(BTN_STATE_A) ->
                    world' = [world EXCEPT !.thing = "StateA"]
               [] m = ButtonClicked(BTN_STATE_B) ->
                    world' = [world EXCEPT !.thing = "StateB"]
               [] m.tag = "SliderChanged" /\ m.id = SLIDER_GAUGE ->
                    world' = [world EXCEPT !.gauge = m.value]
               [] m.tag = "DragFloatChanged" /\ m.id = DRAGFLOAT_GAUGE ->
                    world' = [world EXCEPT !.gauge = m.value]
               [] OTHER -> world' = world
    ]_vars

\* SliderChanged(SLIDER_ANOTHER, 2) was dispatched to a world that earlier
\* messages and an advance had changed, and it was ignored
C21_Witness ==
  /\ last.op = "SliderChanged" /\ last.a = SLIDER_ANOTHER /\ last.b = 2
  /\ world.gauge = 1
  /\ world.thing = "StateB"
  /\ world.state = 1

\* C22: an advance adds one to the tick counter, toggles the light and
\* leaves thing and gauge alone; the light is Go exactly when the counter
\* is odd.
C22_AdvanceParity ==
  /\ []((world.tl = "Go") <=> (world.state % 2 = 1))
  /\ [][WorldAdvance =>
          /\ world'.state = world.state + 1
          /\ world'.tl = (IF world.tl = "Stop" THEN "Go" ELSE "Stop")
          /\ world'.thing = world.thing
          /\ world'.gauge = world.gauge
       ]_vars

\* the third advance of a world whose thing and gauge messages had changed
C22_Witness ==
  /\ last.op = "advance"
  /\ world.state = 3 /\ world.tl = "Go"
  /\ world.thing = "StateA" /\ world.gauge = 2

====
